---- MODULE Spec2Model ----
(***************************************************************************)
(* Model of the Dialogflow webhook in src/main.py: cf_lead_capture_handler *)
(* with its three helpers log_conversation, handle_knowledge_fallback and  *)
(* send_handoff_notification.                                              *)
(*                                                                         *)
(* One inbound HTTP request is followed through the handler.  The same     *)
(* request may be delivered again (the dialog platform re-sends a webhook  *)
(* call), up to MaxInvocations times, so that two runs of the handler on   *)
(* one request can be compared.  The external collaborators (Firestore     *)
(* /chat-logs and /knowledge-base, the CRM_API_KEY environment variable,   *)
(* the thefuzz library) are inputs: the model draws what they hold the     *)
(* first time the code reads them and keeps it for later reads.            *)
(***************************************************************************)
EXTENDS Naturals, Sequences, FiniteSets, TLC

(* ------------------------------ bounds -------------------------------- *)

\* Largest number of documents held by the /knowledge-base collection.
MaxDocs == 2

\* Number of times the request is delivered to the handler.
MaxInvocations == 2

(* ------------------------- JSON / Python values ------------------------ *)

\* A key that is not in the mapping.
ABSENT == "<absent>"

\* JSON null, Python None.  For a field that the code expects to be a
\* mapping it also stands for any other non-mapping value (a string, a
\* list): such a value has no .get either, and raises the same
\* AttributeError.
NULL == "<null>"

\* A field holding a JSON object.
MAP == "<map>"

\* dict.get(key, default): the default only replaces a missing key; a key
\* that is present with the value null is returned as None.
DictGet(value, default) == IF value = ABSENT THEN default ELSE value

\* str() as applied by an f-string: None is formatted as the text "None".
PyFormat(value) == IF value = NULL THEN "None" ELSE value

(* ------------------------------ constants ------------------------------ *)

INTENT_LEAD == "Lead Capture & Qualification"
INTENT_HANDOFF == "handoff.request"
INTENT_WELCOME == "Default Welcome Intent"

WELCOME_TEXT == "Welcome to Iapetus AI. How can I assist you today?"

HANDOFF_FAILED_TEXT ==
    "I'm sorry, I couldn't connect you right now. Please try emailing us directly."

NO_ANSWER_TEXT ==
    "I'm sorry, I don't have an answer for that. Would you like to speak to a human advisor?"

TECHNICAL_ISSUE_TEXT ==
    "I'm sorry, I seem to be having a technical issue. Please try again in a moment."

LeadAckText(name) ==
    "Thank you, " \o PyFormat(name) \o
    ". Your request has been securely logged. A member of our advisory team will be in contact with you shortly."

HandoffOkText(name, email) ==
    "Thank you, " \o PyFormat(name) \o
    ". I have securely notified our advisory team. They will review your request and reach out to you at "
    \o PyFormat(email) \o " shortly."

(* ----------------------------- the request ----------------------------- *)

\* Values of intentInfo.displayName: the three routed names, the empty
\* name, a case variant and a whitespace variant of routed names.
DisplayNames ==
    { ABSENT, INTENT_LEAD, INTENT_HANDOFF, INTENT_WELCOME, "",
      "default welcome intent", "handoff.request " }

Texts == { ABSENT, NULL, "how much does a plan cost" }

FullNames == { ABSENT, NULL, "Ada Lovelace" }

Emails == { ABSENT, "ada@example.com" }

\* The body as request.get_json() delivers it.  json = "invalid": get_json
\* raises (the body is not JSON); "null": get_json returns None; "object":
\* it returns a dict with the fields below.  A nested field is ABSENT when
\* the field that would hold it is not a mapping; a sessionInfo mapping
\* names its session, as the platform always sends it.
Requests ==
    { r \in [ json : {"invalid", "null", "object"},
              intentInfo : {ABSENT, NULL, MAP},
              displayName : DisplayNames,
              text : Texts,
              sessionInfo : {ABSENT, NULL, MAP},
              session : {ABSENT, "projects/p/sessions/s1"},
              parameters : {ABSENT, NULL, MAP},
              full_name : FullNames,
              email_address : Emails ] :
        /\ (r.json # "object") =>
              /\ r.intentInfo = ABSENT /\ r.text = ABSENT /\ r.sessionInfo = ABSENT
        /\ (r.intentInfo # MAP) => r.displayName = ABSENT
        /\ (r.sessionInfo # MAP) => (r.session = ABSENT /\ r.parameters = ABSENT)
        /\ (r.sessionInfo = MAP) => r.session # ABSENT
        /\ (r.parameters # MAP) => (r.full_name = ABSENT /\ r.email_address = ABSENT) }

(* -------------------------- the knowledge base ------------------------- *)

Questions == { "How much does a premium plan cost?", "How much does a business plan cost?" }

Answers == { "$99/mo", "Contact sales" }

\* A /knowledge-base document as doc.to_dict() returns it.
Docs == [ question : Questions \cup {ABSENT}, answer : Answers \cup {ABSENT} ]

KnowledgeBases == UNION { [1..n -> Docs] : n \in 0..MaxDocs }

\* fuzz.token_sort_ratio, on the strings of the model: an integer 0..100.
\* Both strings are lower-cased, stripped of punctuation, their tokens
\* sorted, and the ratio 2*M/T of the results is rounded:
\*   "a cost does how much plan" against
\*   "a cost does how much plan premium"   2*25/58 = 86.2 -> 86
\*   "a business cost does how much plan"  2*25/59 = 84.7 -> 85
\* the two scores on either side of the threshold.  An empty query scores 0.
token_sort_ratio(query, question) ==
    IF query # "how much does a plan cost" THEN 0
    ELSE IF question = "How much does a premium plan cost?" THEN 86
    ELSE 85

(* ------------------------------ variables ------------------------------ *)

VARIABLES
    request,          \* the inbound request body
    invocation,       \* number of deliveries of the request so far
    pc,               \* position of the running handler
    chat_logs,        \* the /chat-logs collection, in insertion order
    kb_state,         \* "unread", "ok", "unavailable": /knowledge-base
    kb_docs,          \* documents of /knowledge-base, in stream order
    crm_api_key,      \* os.environ.get('CRM_API_KEY'), "<unread>" until read
    none_query,       \* what the installed thefuzz does with a None query
    intent_name,      \* handler local
    user_query,       \* handler local
    branch,           \* the routing branch taken
    name,             \* handler local
    email,            \* handler local
    response_text,    \* handler local
    result,           \* what the handler returned
    raised,           \* where an exception was raised in this invocation
    log_outcome,      \* outcome of log_conversation in this invocation
    notify_result,    \* send_handoff_notification's return value:
                      \* "none" (not called), "true", "false"
    effects,          \* the collaborator calls of this invocation, in
                      \* order: "append", "notify", "kb_read"
    prev              \* log outcome and result of the previous invocation

vars ==
    << request, invocation, pc, chat_logs, kb_state, kb_docs, crm_api_key,
       none_query, intent_name, user_query, branch, name, email,
       response_text, result, raised, log_outcome, notify_result,
       effects, prev >>

env == << kb_state, kb_docs, crm_api_key, none_query >>

locals == << intent_name, user_query, branch, name, email, response_text >>

trace == << raised, log_outcome, notify_result, effects >>

NoResult == [ status |-> 0 ]

NoPrev == [ log_outcome |-> "none", result |-> NoResult ]

(* ------------------------------ helpers -------------------------------- *)

\* The response envelope built at lines 156-167 and 175-186.
Envelope(text) ==
    [ fulfillment_response |->
        [ messages |->
            << [ text |-> [ text |-> << text >>,
                            allow_playback_interruption |-> FALSE ] ] >> ] ]

\* return json.dumps(res), 200, {'Content-Type': 'application/json'}
HttpResponse(text) ==
    [ status |-> 200,
      headers |-> [ ContentType |-> "application/json" ],
      body |-> Envelope(text) ]

ReplyText(res) == res.body.fulfillment_response.messages[1].text.text[1]

\* Number of calls of one collaborator in this invocation.
Calls(kind) == Cardinality({ i \in 1..Len(effects) : effects[i] = kind })

append_attempts == Calls("append")

notify_calls == Calls("notify")

kb_reads == Calls("kb_read")

(* --------------------------- log_conversation -------------------------- *)

\* Building log_data raises before the append is attempted:
\* req_json.get on a None body, or .get on a sessionInfo / intentInfo that
\* is present but not a mapping.
LogDataRaises(req) ==
    \/ req.json # "object"
    \/ req.sessionInfo = NULL
    \/ req.intentInfo = NULL

\* req_json.get("sessionInfo", {}).get("parameters", {})
LogParameters(req) ==
    IF req.parameters = NULL
    THEN [ shape |-> "null", full_name |-> ABSENT, email_address |-> ABSENT ]
    ELSE [ shape |-> "map", full_name |-> req.full_name,
           email_address |-> req.email_address ]

LogData(req) ==
    [ timestamp |-> "SERVER_TIMESTAMP",
      session_id |-> DictGet(req.session, "UNKNOWN"),
      intent_display_name |-> DictGet(req.displayName, "N/A"),
      user_text |-> DictGet(req.text, "N/A"),
      parameters |-> LogParameters(req) ]

\* Where the handler continues after log_conversation caught a failure:
\* the except clause prints and returns, so line 109 runs next.
LogFailureReraised == "except"

LogFailureTarget == "route"

(* ----------------------- handle_knowledge_fallback --------------------- *)

HasQuestionOnly(doc) == doc.question # ABSENT

\* if "question" in data and "answer" in data
HasQuestionAndAnswer(doc) == doc.question # ABSENT /\ doc.answer # ABSENT

SeqRange(s) == { s[i] : i \in 1..Len(s) }

\* choices.keys(): the questions of the kept documents, in the order of
\* their first insertion into the dict.
RECURSIVE ChoiceKeys(_)
ChoiceKeys(docs) ==
    IF docs = << >> THEN << >>
    ELSE LET front == ChoiceKeys(SubSeq(docs, 1, Len(docs) - 1))
             doc == docs[Len(docs)]
         IN IF HasQuestionAndAnswer(doc) /\ doc.question \notin SeqRange(front)
            THEN Append(front, doc.question)
            ELSE front

\* choices[question]: a later document with the same question overwrites
\* the answer of an earlier one.
ChoiceAnswer(docs, question) ==
    LET at == { i \in 1..Len(docs) :
                  HasQuestionAndAnswer(docs[i]) /\ docs[i].question = question }
        last == CHOOSE i \in at : \A j \in at : j <= i
    IN docs[last].answer

\* process.extractOne: the first choice with the highest score.
ExtractOne(query, keys) ==
    LET best == CHOOSE i \in 1..Len(keys) :
                  \A j \in 1..Len(keys) :
                     \/ token_sort_ratio(query, keys[j]) < token_sort_ratio(query, keys[i])
                     \/ (token_sort_ratio(query, keys[j]) = token_sort_ratio(query, keys[i])
                         /\ i <= j)
    IN [ match_text |-> keys[best], score |-> token_sort_ratio(query, keys[best]) ]

AcceptFrom85(score) == score >= 85

\* if score > 85
Accept(score) == score > 85

\* The return value of handle_knowledge_fallback: an answer, or NULL (None).
handle_knowledge_fallback(query, docs) ==
    LET keys == ChoiceKeys(docs)
    IN IF keys = << >> THEN NULL
       ELSE LET best_match == ExtractOne(query, keys)
            IN IF Accept(best_match.score)
               THEN ChoiceAnswer(docs, best_match.match_text)
               ELSE NULL

(* ---------------------- send_handoff_notification ---------------------- *)

CrmApiKeys == { ABSENT, "", "sk-live-12345" }

\* if not email_api_key: return False ... return True
send_handoff_notification(key) == ~(key = ABSENT \/ key = "")

(* ------------------------------- routing ------------------------------- *)

RouteIgnoringCase(intent) ==
    IF intent = INTENT_LEAD THEN "LeadCapture"
    ELSE IF intent = INTENT_HANDOFF THEN "HandoffRequest"
    ELSE IF intent \in { INTENT_WELCOME, "default welcome intent" } THEN "Welcome"
    ELSE "Unrecognized"

\* The if / elif / elif / else chain of lines 115-146.
Route(intent) ==
    IF intent = INTENT_LEAD THEN "LeadCapture"
    ELSE IF intent = INTENT_HANDOFF THEN "HandoffRequest"
    ELSE IF intent = INTENT_WELCOME THEN "Welcome"
    ELSE "Unrecognized"

BranchPc(b) ==
    IF b = "LeadCapture" THEN "lead"
    ELSE IF b = "HandoffRequest" THEN "handoff"
    ELSE IF b = "Welcome" THEN "welcome"
    ELSE "fallback"

\* Where an exception raised inside the handler's try block lands: the
\* except Exception clause of line 172.
ExceptionPropagates == "propagated"

ExceptionTarget == "except"

Raise(site) ==
    /\ pc' = ExceptionTarget
    /\ raised' = site

(* ------------------------------ the handler ---------------------------- *)

UNSET == "<unset>"

UNREAD == "<unread>"

Init ==
    /\ request \in Requests
    /\ invocation = 0
    /\ pc = "idle"
    /\ chat_logs = << >>
    /\ kb_state = "unread"
    /\ kb_docs = << >>
    /\ crm_api_key = UNREAD
    /\ none_query = "unread"
    /\ intent_name = UNSET
    /\ user_query = UNSET
    /\ branch = "none"
    /\ name = UNSET
    /\ email = UNSET
    /\ response_text = NULL
    /\ result = NoResult
    /\ raised = "none"
    /\ log_outcome = "none"
    /\ notify_result = "none"
    /\ effects = << >>
    /\ prev = NoPrev

\* The functions framework calls cf_lead_capture_handler with the request:
\* the first delivery, or a further one after the handler has returned.
\* Every call starts with fresh locals (response_text = None); what the
\* previous call logged and returned is kept in prev.
Invoke ==
    /\ pc \in { "idle", "done" }
    /\ invocation < MaxInvocations
    /\ invocation' = invocation + 1
    /\ pc' = "get_json"
    /\ prev' = IF pc = "done"
               THEN [ log_outcome |-> log_outcome, result |-> result ]
               ELSE prev
    /\ intent_name' = UNSET
    /\ user_query' = UNSET
    /\ branch' = "none"
    /\ name' = UNSET
    /\ email' = UNSET
    /\ response_text' = NULL
    /\ result' = NoResult
    /\ raised' = "none"
    /\ log_outcome' = "none"
    /\ notify_result' = "none"
    /\ effects' = << >>
    /\ UNCHANGED << request, chat_logs, env >>

\* req = request.get_json()
GetJson ==
    /\ pc = "get_json"
    /\ IF request.json = "invalid"
       THEN Raise("get_json")
       ELSE pc' = "log" /\ UNCHANGED raised
    /\ UNCHANGED << request, invocation, chat_logs, env, locals, result,
                    log_outcome, notify_result, effects, prev >>

\* log_conversation(req): build log_data, then add it to /chat-logs; any
\* exception is printed and swallowed.
LogConversation ==
    /\ pc = "log"
    /\ IF LogDataRaises(request)
       THEN /\ log_outcome' = "build_raised"
            /\ pc' = LogFailureTarget
            /\ UNCHANGED << chat_logs, effects >>
       ELSE /\ effects' = Append(effects, "append")
            /\ \/ /\ chat_logs' = Append(chat_logs, LogData(request))
                  /\ log_outcome' = "written"
                  /\ pc' = "route"
               \/ /\ log_outcome' = "append_raised"
                  /\ pc' = LogFailureTarget
                  /\ UNCHANGED chat_logs
    /\ raised' = IF pc' = "route" THEN raised ELSE "log"
    /\ UNCHANGED << request, invocation, env, locals, result, notify_result, prev >>

\* Lines 109-111 and the intent tests of lines 115, 130, 143, 146.
RouteIntent ==
    /\ pc = "route"
    /\ IF request.json = "null" \/ request.intentInfo = NULL
       THEN /\ Raise("route")
            /\ UNCHANGED << intent_name, user_query, branch >>
       ELSE /\ intent_name' = DictGet(request.displayName, "")
            /\ user_query' = DictGet(request.text, "")
            /\ branch' = Route(intent_name')
            /\ pc' = BranchPc(branch')
            /\ UNCHANGED raised
    /\ UNCHANGED << request, invocation, chat_logs, env, name, email,
                    response_text, result, log_outcome, notify_result,
                    effects, prev >>

\* session_params = req.get("sessionInfo", {}).get("parameters", {}) raises
\* on a sessionInfo that is not a mapping; session_params.get raises on
\* parameters that are not a mapping.
SessionParamsRaise(req) == req.sessionInfo = NULL \/ req.parameters = NULL

\* os.environ.get('CRM_API_KEY') as this read finds it.
KeysOnRead == IF crm_api_key = UNREAD THEN CrmApiKeys ELSE { crm_api_key }

BoolText(b) == IF b THEN "true" ELSE "false"

\* Lines 115-128.
LeadCapture ==
    /\ pc = "lead"
    /\ IF SessionParamsRaise(request)
       THEN /\ Raise("lead")
            /\ UNCHANGED << name, response_text, crm_api_key, notify_result, effects >>
       ELSE /\ name' = DictGet(request.full_name, "Valued Prospect")
            /\ \E key \in KeysOnRead :
                  /\ crm_api_key' = key
                  /\ notify_result' = BoolText(send_handoff_notification(key))
            /\ effects' = Append(effects, "notify")
            /\ response_text' = LeadAckText(name')
            /\ pc' = "respond"
            /\ UNCHANGED raised
    /\ UNCHANGED << request, invocation, chat_logs, kb_state, kb_docs,
                    none_query, intent_name, user_query, branch, email,
                    result, log_outcome, prev >>

\* Lines 130-141.
HandoffRequest ==
    /\ pc = "handoff"
    /\ IF SessionParamsRaise(request)
       THEN /\ Raise("handoff")
            /\ UNCHANGED << name, email, response_text, crm_api_key,
                            notify_result, effects >>
       ELSE /\ name' = DictGet(request.full_name, "Prospect")
            /\ email' = DictGet(request.email_address, "Not Collected")
            /\ \E key \in KeysOnRead :
                  /\ crm_api_key' = key
                  /\ notify_result' = BoolText(send_handoff_notification(key))
            /\ effects' = Append(effects, "notify")
            /\ response_text' = IF notify_result' = "true"
                                THEN HandoffOkText(name', email')
                                ELSE HANDOFF_FAILED_TEXT
            /\ pc' = "respond"
            /\ UNCHANGED raised
    /\ UNCHANGED << request, invocation, chat_logs, kb_state, kb_docs,
                    none_query, intent_name, user_query, branch, result,
                    log_outcome, prev >>

\* Lines 143-144.
Welcome ==
    /\ pc = "welcome"
    /\ response_text' = WELCOME_TEXT
    /\ pc' = "respond"
    /\ UNCHANGED << request, invocation, chat_logs, env, intent_name,
                    user_query, branch, name, email, result, trace, prev >>

\* What kb_ref.stream() delivers on this read.
KbOnRead ==
    IF kb_state = "unread"
    THEN { [ state |-> "ok", docs |-> d ] : d \in KnowledgeBases }
         \cup { [ state |-> "unavailable", docs |-> << >> ] }
    ELSE { [ state |-> kb_state, docs |-> kb_docs ] }

\* What the installed thefuzz does when the query is None.
NoneQueryOnCall ==
    IF none_query = "unread" THEN { "raises", "scores_zero" } ELSE { none_query }

\* Lines 146-153: handle_knowledge_fallback(user_query) and the final
\* fallback text.
KnowledgeFallback ==
    /\ pc = "fallback"
    /\ effects' = Append(effects, "kb_read")
    /\ \E kb \in KbOnRead :
          /\ kb_state' = kb.state
          /\ kb_docs' = kb.docs
          /\ IF kb.state = "unavailable"
             THEN /\ Raise("fallback")
                  /\ UNCHANGED << response_text, none_query >>
             ELSE IF user_query = NULL /\ ChoiceKeys(kb.docs) # << >>
             THEN \E lib \in NoneQueryOnCall :
                     /\ none_query' = lib
                     /\ IF lib = "raises"
                        THEN /\ Raise("fallback")
                             /\ UNCHANGED response_text
                        ELSE /\ response_text' = NO_ANSWER_TEXT
                             /\ pc' = "respond"
                             /\ UNCHANGED raised
             ELSE /\ response_text' =
                        IF handle_knowledge_fallback(user_query, kb.docs) = NULL
                        THEN NO_ANSWER_TEXT
                        ELSE handle_knowledge_fallback(user_query, kb.docs)
                  /\ pc' = "respond"
                  /\ UNCHANGED << raised, none_query >>
    /\ UNCHANGED << request, invocation, chat_logs, crm_api_key, intent_name,
                    user_query, branch, name, email, result, log_outcome,
                    notify_result, prev >>

\* Lines 155-170.
Respond ==
    /\ pc = "respond"
    /\ result' = HttpResponse(response_text)
    /\ pc' = "done"
    /\ UNCHANGED << request, invocation, chat_logs, env, locals, trace, prev >>

\* Lines 172-188.
Except ==
    /\ pc = "except"
    /\ result' = HttpResponse(TECHNICAL_ISSUE_TEXT)
    /\ pc' = "done"
    /\ UNCHANGED << request, invocation, chat_logs, env, locals, trace, prev >>

Next ==
    \/ Invoke
    \/ GetJson
    \/ LogConversation
    \/ RouteIntent
    \/ LeadCapture
    \/ HandoffRequest
    \/ Welcome
    \/ KnowledgeFallback
    \/ Respond
    \/ Except

Spec == Init /\ [][Next]_vars

(* ------------------------------- claims -------------------------------- *)

Done == pc = "done"

Reply == ReplyText(result)

\* The positions of the handler: all of them lie inside the try block or
\* the except clause, or are the return.
HandlerPcs ==
    { "idle", "get_json", "log", "route", "lead", "handoff", "welcome",
      "fallback", "respond", "except", "done" }

\* C1: whatever the body, the intent, the knowledge base and the failures of
\* the audit store, the knowledge store and the dispatcher, the handler
\* returns status 200 with Content-Type application/json and the fixed
\* envelope (one message, a one-element text list, playback interruption
\* false); an exception raised in the handler ends in the fixed
\* technical-issue text and never leaves the handler.
C1_AlwaysFixedEnvelope ==
    /\ pc \in HandlerPcs
    /\ Done =>
          /\ result.status = 200
          /\ result.headers = [ ContentType |-> "application/json" ]
          /\ DOMAIN result.body = { "fulfillment_response" }
          /\ DOMAIN result.body.fulfillment_response = { "messages" }
          /\ Len(result.body.fulfillment_response.messages) = 1
          /\ Len(result.body.fulfillment_response.messages[1].text.text) = 1
          /\ result.body.fulfillment_response.messages[1].text.allow_playback_interruption = FALSE
          /\ (raised # "none") => (Reply = TECHNICAL_ISSUE_TEXT)
          /\ (raised = "none") => (Reply = response_text /\ Reply # TECHNICAL_ISSUE_TEXT)

\* C1 witness: the audit append failed and the knowledge store failed, and
\* the handler has returned.
C1_Witness ==
    /\ Done
    /\ log_outcome = "append_raised"
    /\ kb_state = "unavailable"
    /\ raised = "fallback"

\* The documents that hold both fields.
CompleteDocs(docs) ==
    SelectSeq(docs, LAMBDA d : d.question # ABSENT /\ d.answer # ABSENT)

\* The highest score of the query against the questions of the documents.
TopScore(query, docs) ==
    LET scores == { token_sort_ratio(query, docs[i].question) : i \in 1..Len(docs) }
    IN CHOOSE s \in scores : \A t \in scores : t <= s

\* C2: for an unrecognized intent whose knowledge-base read and match
\* completed, the reply is the answer of a highest-scoring candidate
\* question exactly when that top score is above 85; with a top score of 85
\* or less, or no candidate, it is the fixed don't-know prompt.
C2_ThresholdAbove85 ==
    (Done /\ branch = "Unrecognized" /\ kb_state = "ok" /\ raised = "none") =>
        LET cands == CompleteDocs(kb_docs)
        IN IF cands = << >> \/ TopScore(user_query, cands) <= 85
           THEN Reply = NO_ANSWER_TEXT
           ELSE \E i \in 1..Len(cands) :
                   /\ token_sort_ratio(user_query, cands[i].question)
                         = TopScore(user_query, cands)
                   /\ Reply = cands[i].answer

\* C2 witness: a candidate scoring 85 and a candidate scoring 86 were read;
\* the reply is the answer of the one scoring 86.
C2_Witness ==
    /\ Done
    /\ branch = "Unrecognized"
    /\ kb_docs = << [ question |-> "How much does a business plan cost?", answer |-> "Contact sales" ],
                    [ question |-> "How much does a premium plan cost?", answer |-> "$99/mo" ] >>
    /\ user_query = "how much does a plan cost"
    /\ Reply = "$99/mo"

C5_LogFailureInvisible ==
    /\ (Done /\ { prev.log_outcome, log_outcome } = { "written", "append_raised" })
          => (result = prev.result)
    /\ raised # "log"
    /\ (Done /\ Reply = TECHNICAL_ISSUE_TEXT) =>
          (raised \in { "get_json", "route", "lead", "handoff", "fallback" })

\* C5 witness: the first run wrote the audit record, the second run's
\* append raised, and the second run answered from the knowledge base.
C5_Witness ==
    /\ Done
    /\ invocation = 2
    /\ prev.log_outcome = "written"
    /\ log_outcome = "append_raised"
    /\ branch = "Unrecognized"
    /\ Reply = "$99/mo"
    /\ Len(chat_logs) = 1

\* The reply of the unrecognized branch for a store, by lines 149-153.
FallbackReply(query, docs) ==
    IF handle_knowledge_fallback(query, docs) = NULL
    THEN NO_ANSWER_TEXT
    ELSE handle_knowledge_fallback(query, docs)

\* C7: documents lacking question or answer are no candidates: the reply of
\* the unrecognized branch is the reply for the same store without them
\* (an exception of the matcher on a None query arises with or without
\* them), and a store of only such documents gives the don't-know prompt
\* and no exception.
C7_IncompleteDocsIgnored ==
    (Done /\ branch = "Unrecognized" /\ kb_state = "ok") =>
        /\ (raised = "none") => (Reply = FallbackReply(user_query, CompleteDocs(kb_docs)))
        /\ (raised # "none") =>
              (user_query = NULL /\ CompleteDocs(kb_docs) # << >>)
        /\ (CompleteDocs(kb_docs) = << >>) =>
              (raised = "none" /\ Reply = NO_ANSWER_TEXT)

\* C7 witness: the document that would score 86 lacks its answer, the
\* complete document scores 85, and the reply is the don't-know prompt.
C7_Witness ==
    /\ Done
    /\ branch = "Unrecognized"
    /\ user_query = "how much does a plan cost"
    /\ kb_docs = << [ question |-> "How much does a premium plan cost?", answer |-> ABSENT ],
                    [ question |-> "How much does a business plan cost?", answer |-> "Contact sales" ] >>
    /\ Reply = NO_ANSWER_TEXT

\* The session parameters can be read: sessionInfo and parameters are each
\* missing or a mapping.
ParametersReadable == ~SessionParamsRaise(request)

\* C4: a HandoffRequest invocation without the credential gets False from
\* the dispatcher and replies with the failure-path apology; with the
\* credential it gets True and replies with the confirmation naming
\* email_address (or "Not Collected") and full_name (or "Prospect").
C4_HandoffReplyFollowsCredential ==
    (Done /\ branch = "HandoffRequest") =>
        \/ /\ crm_api_key \in { ABSENT, "" }
           /\ notify_result = "false"
           /\ Reply = HANDOFF_FAILED_TEXT
        \/ /\ crm_api_key = "sk-live-12345"
           /\ notify_result = "true"
           /\ Reply = HandoffOkText(DictGet(request.full_name, "Prospect"),
                                    DictGet(request.email_address, "Not Collected"))

\* C4, for the requests whose session parameters can be read: the statement
\* holds of them.
C4_WhenParametersReadable ==
    ParametersReadable => C4_HandoffReplyFollowsCredential

\* C6: a request with missing, null or wrongly shaped fields is not fatal:
\* (unless the knowledge store itself fails) the reply is never the
\* technical-issue text, the request reaches one of the four branches, and
\* no null reaches the formatted reply.
C6_MalformedFieldsDefaulted ==
    (Done /\ request.json = "object" /\ kb_state # "unavailable") =>
        /\ Reply # TECHNICAL_ISSUE_TEXT
        /\ branch # "none"
        /\ name # NULL
        /\ email # NULL

\* C6, for the requests in which every field is missing or well shaped
\* (no null intentInfo, sessionInfo, parameters, full_name or text): the
\* statement holds of them.
C6_WhenFieldsOnlyMissing ==
    ( /\ request.intentInfo # NULL
      /\ request.sessionInfo # NULL
      /\ request.parameters # NULL
      /\ request.full_name # NULL
      /\ request.text # NULL ) => C6_MalformedFieldsDefaulted

\* C8: a LeadCapture invocation always replies with the acknowledgement for
\* full_name, or for "Valued Prospect" when full_name is missing, whatever
\* the dispatcher returned.
C8_LeadAlwaysAcknowledged ==
    (Done /\ branch = "LeadCapture") =>
        Reply = LeadAckText(DictGet(request.full_name, "Valued Prospect"))

\* C8, for the requests whose session parameters can be read: the statement
\* holds of them, with the dispatcher having returned True or False.
C8_WhenParametersReadable ==
    ParametersReadable =>
        /\ C8_LeadAlwaysAcknowledged
        /\ (Done /\ branch = "LeadCapture") => (notify_result \in { "true", "false" })

\* C9: in one invocation the dispatcher is called exactly once in the
\* LeadCapture and HandoffRequest branches and never in the Welcome and
\* Unrecognized branches; the knowledge store is read only in the
\* Unrecognized branch; Welcome does neither.
C9_BranchOwnEffectOnly ==
    Done =>
        /\ (branch \in { "LeadCapture", "HandoffRequest" }) =>
              (notify_calls = 1 /\ kb_reads = 0)
        /\ (branch = "Welcome") => (notify_calls = 0 /\ kb_reads = 0)
        /\ (branch = "Unrecognized") => (notify_calls = 0)
        /\ (kb_reads > 0) => (branch = "Unrecognized")

\* C9, without "exactly once": the dispatcher is called at most once and
\* only in the two dispatching branches, the knowledge store is read at most
\* once and only in the Unrecognized branch; and exactly once where the
\* session parameters can be read.
C9_AtMostOwnEffect ==
    /\ notify_calls <= 1
    /\ kb_reads <= 1
    /\ (notify_calls = 1) => (branch \in { "LeadCapture", "HandoffRequest" })
    /\ (kb_reads = 1) => (branch = "Unrecognized")
    /\ ParametersReadable => C9_BranchOwnEffectOnly

\* C10: every invocation attempts exactly one audit append, before any
\* dispatch or knowledge-store read; a successful append adds one record
\* with this request's session id, intent name, text and parameters; and
\* the records already in /chat-logs stay as they are.
C10_OneAuditAppendFirst ==
    /\ Done => (append_attempts = 1)
    /\ (effects # << >>) => (effects[1] = "append")
    /\ (Done /\ log_outcome = "written") =>
          (chat_logs # << >> /\ chat_logs[Len(chat_logs)] = LogData(request))
    /\ Len(chat_logs) <= invocation
    /\ \A i \in 1..Len(chat_logs) : chat_logs[i] = LogData(request)

\* C10, for the requests whose audit record can be built: the statement
\* holds of them; in every other invocation no append is attempted.
C10_WhenLogDataBuilds ==
    /\ (~LogDataRaises(request) /\ request.json # "invalid") => C10_OneAuditAppendFirst
    /\ (Done /\ (LogDataRaises(request) \/ request.json = "invalid")) =>
          (append_attempts = 0 /\ chat_logs = << >>)
    /\ append_attempts <= 1

\* /chat-logs is append-only: a step leaves it as it is or adds the record
\* of the request at its end.
C10_ChatLogsAppendOnly ==
    [][ \/ chat_logs' = chat_logs
        \/ chat_logs' = Append(chat_logs, LogData(request)) ]_vars

====
